---- MODULE Spec2Model ----
\* The "likering" REST backend: the usuarios table, the image store, bcrypt and
\* the Express handlers of src/index.js, src/unnamed/part_000 and
\* src/unnamed/part_001, one action per stretch of handler code between awaits.
EXTENDS Integers, Sequences, FiniteSets, TLC

\* ------------------------------------------------------------------ bounds
\* Number of requests the server accepts in one run.
MaxRequests == 3

\* Requests that can be in flight at the same time (Node runs each handler
\* up to its next await, then may switch to another request).
Slots == {1, 2}

\* ------------------------------------------------------------------ values
\* SQL NULL / JS null, undefined.
NULL == "<null>"

\* A JSON number sent where a string is expected (typeof x !== 'string'); it is
\* truthy, so the handlers' `!x` checks let it through.
NumPw == "#123"

IsString(v) == v # NumPw

\* node-postgres sends a JS number as its decimal text.
PgText(v) == IF v = NumPw THEN "123" ELSE v

\* Identifiers clients send as username, correo or login/search query. The
\* handlers validate no format, so one pool serves both fields.
Idents == {"ana", "Ana"}

\* String.prototype.toLowerCase on the identifiers above.
ToLowerCase(v) == IF v = "Ana" THEN "ana" ELSE v

Nombres == {"Ana"}
RegistroClaves == {"pass123", NumPw}
LoginClaves == {"pass123", "wrong", NumPw}
Imagenes == {"", "AAAA"}

\* ------------------------------------------------------------------ state
VARIABLES
    usuarios,   \* rows of the usuarios table
    nextId,     \* the table's id sequence
    salts,      \* number of salts bcrypt has generated
    images,     \* URLs the image store has returned
    reqs,       \* per slot: the request being handled and the handler's locals
    trace,      \* per slot: what the handler has done for this request (history)
    started,    \* requests accepted so far
    dbCheck,    \* the connectivity check made at startup: pending, ok, failed
    serving     \* the Node process is running

vars == <<usuarios, nextId, salts, images, reqs, trace, started, dbCheck, serving>>

Columns ==
    {"id", "nombre", "username", "correo", "imagen_url", "contrasena_hash",
     "contrasena", "password", "descripcion", "tipo", "seguidores",
     "likes_recibidos"}

\* The columns that hold a credential: contrasena_hash (written by
\* /api/usuarios/registro), contrasena (written by POST /api/usuarios) and
\* password (read by part_001).
CredentialColumns == {"contrasena_hash", "contrasena", "password"}

\* A row with the id the sequence assigns and the inserted columns; every
\* column the INSERT does not name is NULL.
NewRow(id, vals) ==
    [c \in Columns |->
        IF c = "id" THEN id ELSE IF c \in DOMAIN vals THEN vals[c] ELSE NULL]

NoRow == NewRow(0, [nombre |-> NULL])

\* SELECT <cols> / RETURNING <cols>.
Project(row, cols) == [c \in cols |-> row[c]]

\* req.body / req.query; "" stands for an absent (or empty) field.
EmptyBody ==
    [nombre |-> "", correo |-> "", username |-> "", contrasena |-> "",
     imagenBase64 |-> "", descripcion |-> "", tipo |-> "", query |-> "",
     password |-> ""]

NoResp == [kind |-> "none", error |-> "", rows |-> <<>>]
ErrorBody(msg) == [kind |-> "error", error |-> msg, rows |-> <<>>]
ObjectBody(row) == [kind |-> "object", error |-> "", rows |-> <<row>>]
ArrayBody(rows) == [kind |-> "array", error |-> "", rows |-> rows]

IdleReq ==
    [handler |-> "none", pc |-> "idle", body |-> EmptyBody,
     imageUrl |-> NULL, contrasenaHash |-> NULL, user |-> NoRow,
     status |-> 0, resp |-> NoResp, sent |-> 0]

\* History of one request: whether a row with its username or correo existed
\* when it arrived, the uploads and INSERTs it sent, whether the table rejected
\* its INSERT, the id of the row it inserted, whether a collaborator failed
\* (store unreachable, upload refused), the table as its SELECT saw it, and
\* whether it arrived after the startup check had failed or after another
\* request had failed on a collaborator.
IdleTrace ==
    [dupAtStart |-> FALSE, uploads |-> 0, inserts |-> 0, rejected |-> FALSE,
     inserted |-> 0, fault |-> FALSE, snapshot |-> {},
     afterCheckFailed |-> FALSE, afterFault |-> FALSE]

\* A row that was in the table before the server started, of the kind
\* part_001's login reads: its password is in the password column, as plain
\* text. No handler of the repository writes that column.
LegacyRow ==
    NewRow(1, [nombre |-> "Ana", username |-> "ana", correo |-> "ana",
               password |-> "pass123"])

\* The server starts on an empty table or on one holding the legacy row.
Init ==
    /\ usuarios \in {{}, {LegacyRow}}
    /\ nextId = Cardinality(usuarios) + 1
    /\ salts = 0
    /\ images = {}
    /\ reqs = [s \in Slots |-> IdleReq]
    /\ trace = [s \in Slots |-> IdleTrace]
    /\ started = 0
    /\ dbCheck = "pending"
    /\ serving = TRUE

\* ------------------------------------------------------------ collaborators
\* bcrypt.hash(data, 10): "$2b$10$" + salt + digest. The digest is a one-way
\* function of salt and data, written here by naming its two arguments.
BcryptHash(salt, data) == "$2b$10$" \o ToString(salt) \o "$" \o data

\* bcrypt generates a fresh random salt on every hash call.
GenSalt == salts + 1

\* bcrypt.compare(data, hash): rejects when an argument is missing or data is
\* not a string; otherwise re-derives the digest with the salt embedded in
\* hash and compares.
BcryptCompare(data, hash) ==
    IF ~IsString(data) \/ hash = NULL THEN "throw"
    ELSE IF \E k \in 1..MaxRequests : hash = BcryptHash(k, data) THEN "true"
    ELSE "false"

\* cloudinary.uploader.upload resolves with the secure_url of the new image.
SecureUrl == "https://res.cloudinary.com/likering_perfiles/" \o ToString(Cardinality(images) + 1)

\* The usuarios table rejects an INSERT whose username or whose correo is
\* already present (PostgreSQL unique_violation, SQLSTATE 23505).
UniqueViolation(vals) ==
    \E r \in usuarios : r.username = vals.username \/ r.correo = vals.correo

\* ... WHERE username = $1 OR correo = $1
SelectWhere(q) == {r \in usuarios : r.username = q \/ r.correo = q}

\* All orders in which a query without ORDER BY may return the rows S.
AnyOrder(S) ==
    {f \in [1..Cardinality(S) -> S] :
        \A i, j \in 1..Cardinality(S) : i # j => f[i] # f[j]}

\* ... ORDER BY id DESC
OrderByIdDesc(S) ==
    CHOOSE f \in AnyOrder(S) :
        \A i, j \in 1..Cardinality(S) : i < j => f[i].id > f[j].id

\* ------------------------------------------------------------- bookkeeping
InFlight(s) == reqs[s].pc \notin {"idle", "done"}

\* A request arrives at a free slot: the handler starts with fresh locals.
Accept(s, handler, b) ==
    [IdleReq EXCEPT !.handler = handler, !.body = b]

Arrive(s, b) ==
    [IdleTrace EXCEPT
        !.dupAtStart = \E r \in usuarios :
                          r.username = b.username \/ r.correo = b.correo,
        !.afterCheckFailed = (dbCheck = "failed"),
        !.afterFault = \E t \in Slots : reqs[t].pc = "done" /\ trace[t].fault]

\* A new request takes the first slot that is not in flight (slots have no
\* identity of their own).
CanAccept(s) ==
    /\ serving
    /\ ~InFlight(s)
    /\ \A t \in Slots : t < s => InFlight(t)
    /\ started < MaxRequests

\* res.status(st).json(body): the request is answered.
Send(r, st, body) ==
    [r EXCEPT !.pc = "done", !.status = st, !.resp = body, !.sent = @ + 1]

\* ------------------------------------------ POST /api/usuarios/registro
RegistroBody(n, c, u, p, i) ==
    [EmptyBody EXCEPT !.nombre = n, !.correo = c, !.username = u,
                      !.contrasena = p, !.imagenBase64 = i]

\* Every username/correo pair with a string password and no image, and for
\* one pair also a password that is not a string and an attached image.
ValidRegistro ==
    {RegistroBody(n, c, u, "pass123", "") : n \in Nombres, c \in Idents, u \in Idents}
    \cup {RegistroBody("Ana", "ana", "ana", p, i) : p \in RegistroClaves, i \in Imagenes}

\* Bodies with one mandatory field absent.
MissingOne(b) ==
    {[b EXCEPT ![f] = ""] : f \in {"nombre", "correo", "username", "contrasena"}}

RegistroBodies ==
    ValidRegistro \cup
    MissingOne(RegistroBody("Ana", "ana", "ana", "pass123", "AAAA"))

\* The validation with the check of contrasena left out.
RegistroMissingNoClave(b) ==
    b.nombre = "" \/ b.correo = "" \/ b.username = ""

\* if (!nombre || !correo || !username || !contrasena)
RegistroMissing(b) ==
    b.nombre = "" \/ b.correo = "" \/ b.username = "" \/ b.contrasena = ""

\* The catch block answering a duplicate as if the row had been created.
RegistroCatchCreated(r, code) ==
    IF code = "23505"
    THEN Send(r, 201, ObjectBody([username |-> r.body.username, correo |-> r.body.correo]))
    ELSE Send(r, 500, ErrorBody("Error interno del servidor durante el registro."))

\* The catch block without the test of err.code: every error is answered 500.
RegistroCatchNoCode(r, code) ==
    Send(r, 500, ErrorBody("Error interno del servidor durante el registro."))

\* The catch block swallowing a failed upload: the handler goes on to the
\* hashing and the INSERT without an image URL.
RegistroCatchSkipUpload(r, code) ==
    IF code = "upload" THEN [r EXCEPT !.pc = "hash"]
    ELSE IF code = "23505"
    THEN Send(r, 409, ErrorBody("El nombre de usuario o correo ya esta registrado."))
    ELSE Send(r, 500, ErrorBody("Error interno del servidor durante el registro."))

\* The catch block of the handler: 23505 is answered 409, the rest 500.
RegistroCatch(r, code) ==
    IF code = "23505"
    THEN Send(r, 409, ErrorBody("El nombre de usuario o correo ya esta registrado."))
    ELSE Send(r, 500, ErrorBody("Error interno del servidor durante el registro."))

\* The request arrives; the handler validates and runs to its first await:
\* the upload when an image is attached, bcrypt.hash otherwise.
RegistroReceive(s, b) ==
    /\ CanAccept(s)
    /\ started' = started + 1
    /\ LET r == Accept(s, "registro", b)
           upload == ~RegistroMissing(b) /\ b.imagenBase64 # ""
       IN /\ reqs' = [reqs EXCEPT ![s] =
                IF RegistroMissing(b)
                THEN Send(r, 400, ErrorBody("Faltan campos obligatorios."))
                ELSE IF upload THEN [r EXCEPT !.pc = "upload"]
                ELSE [r EXCEPT !.pc = "hash"]]
          /\ trace' = [trace EXCEPT ![s] =
                [Arrive(s, b) EXCEPT !.uploads = IF upload THEN 1 ELSE 0]]
    /\ UNCHANGED <<usuarios, nextId, salts, images, dbCheck, serving>>

\* await cloudinary.uploader.upload(...) settles: imageUrl = secure_url, or the
\* rejection lands in the catch block.
RegistroUploaded(s) ==
    /\ serving /\ reqs[s].handler = "registro" /\ reqs[s].pc = "upload"
    /\ \E ok \in BOOLEAN :
        IF ok
        THEN /\ reqs' = [reqs EXCEPT ![s].imageUrl = SecureUrl, ![s].pc = "hash"]
             /\ images' = images \cup {SecureUrl}
             /\ UNCHANGED trace
        ELSE /\ reqs' = [reqs EXCEPT ![s] = RegistroCatch(reqs[s], "upload")]
             /\ trace' = [trace EXCEPT ![s].fault = TRUE]
             /\ UNCHANGED images
    /\ UNCHANGED <<usuarios, nextId, salts, started, dbCheck, serving>>

\* await bcrypt.hash(contrasena, 10) settles; it rejects data that is not a
\* string. Then the INSERT is sent.
RegistroHashed(s) ==
    /\ serving /\ reqs[s].handler = "registro" /\ reqs[s].pc = "hash"
    /\ IF IsString(reqs[s].body.contrasena)
       THEN /\ reqs' = [reqs EXCEPT
                  ![s].contrasenaHash = BcryptHash(GenSalt, reqs[s].body.contrasena),
                  ![s].pc = "insert"]
            /\ salts' = salts + 1
            /\ trace' = [trace EXCEPT ![s].inserts = 1]
       ELSE /\ reqs' = [reqs EXCEPT ![s] = RegistroCatch(reqs[s], "hash")]
            /\ UNCHANGED <<salts, trace>>
    /\ UNCHANGED <<usuarios, nextId, images, started, dbCheck, serving>>

\* The INSERT with its parameters in the wrong order: correo and username
\* land in each other's column.
RegistroValuesSwapped(r) ==
    [nombre |-> r.body.nombre, correo |-> r.body.username,
     username |-> r.body.correo, contrasena_hash |-> r.contrasenaHash,
     imagen_url |-> r.imageUrl]

\* INSERT INTO usuarios (nombre, correo, username, contrasena_hash, imagen_url)
\* VALUES ($1, $2, $3, $4, $5) with [nombre, correo, username, contrasenaHash, imageUrl]
RegistroValues(r) ==
    [nombre |-> r.body.nombre, correo |-> r.body.correo,
     username |-> r.body.username, contrasena_hash |-> r.contrasenaHash,
     imagen_url |-> r.imageUrl]

\* RETURNING id, nombre, username, correo, imagen_url
RegistroReturning == {"id", "nombre", "username", "correo", "imagen_url"}

\* The INSERT written as an upsert (ON CONFLICT ... DO UPDATE): a duplicate
\* overwrites the rows that hold its username or its correo.
RegistroInsertedUpsert(s) ==
    /\ serving /\ reqs[s].handler = "registro" /\ reqs[s].pc = "insert"
    /\ LET r == reqs[s]
           old == {x \in usuarios : x.username = r.body.username
                                      \/ x.correo = r.body.correo}
           row == NewRow(nextId, RegistroValues(r))
       IN /\ usuarios' = (usuarios \ old) \cup {row}
          /\ nextId' = nextId + 1
          /\ reqs' = [reqs EXCEPT ![s] =
                Send(r, 201, ObjectBody(Project(row, RegistroReturning)))]
          /\ trace' = [trace EXCEPT ![s].inserted = row.id]
    /\ UNCHANGED <<salts, images, started, dbCheck, serving>>

\* await pool.query(insertQuery, ...) settles: 201 with the RETURNING row, or
\* the error lands in the catch block.
RegistroInserted(s) ==
    /\ serving /\ reqs[s].handler = "registro" /\ reqs[s].pc = "insert"
    /\ \E ok \in BOOLEAN :
        LET r == reqs[s]
            row == NewRow(nextId, RegistroValues(r))
        IN IF ~ok
           THEN /\ reqs' = [reqs EXCEPT ![s] = RegistroCatch(r, "ECONNREFUSED")]
                /\ trace' = [trace EXCEPT ![s].fault = TRUE]
                /\ UNCHANGED <<usuarios, nextId>>
           ELSE IF UniqueViolation(RegistroValues(r))
           THEN /\ reqs' = [reqs EXCEPT ![s] = RegistroCatch(r, "23505")]
                /\ trace' = [trace EXCEPT ![s].rejected = TRUE]
                /\ UNCHANGED <<usuarios, nextId>>
           ELSE /\ usuarios' = usuarios \cup {row}
                /\ nextId' = nextId + 1
                /\ reqs' = [reqs EXCEPT ![s] =
                      Send(r, 201, ObjectBody(Project(row, RegistroReturning)))]
                /\ trace' = [trace EXCEPT ![s].inserted = row.id]
    /\ UNCHANGED <<salts, images, started, dbCheck, serving>>

\* ------------------------------------------------- POST /api/usuarios
CrearBody(c, u, p, n) ==
    [EmptyBody EXCEPT !.correo = c, !.username = u, !.contrasena = p,
                      !.nombre = n]

\* descripcion and tipo are left out of every body (they are stored as NULL).
ValidCrear ==
    {CrearBody(c, u, "pass123", n) : c \in Idents, u \in Idents, n \in Nombres}
    \cup {CrearBody("ana", "ana", NumPw, "Ana")}

CrearBodies == ValidCrear \cup MissingOne(CrearBody("ana", "ana", "pass123", "Ana"))

\* if (!correo || !username || !contrasena || !nombre)
CrearMissing(b) ==
    b.correo = "" \/ b.username = "" \/ b.contrasena = "" \/ b.nombre = ""

\* The catch block of the handler: 23505 is answered 409, the rest 500.
CrearCatch(r, code) ==
    IF code = "23505"
    THEN Send(r, 409, ErrorBody("El correo o nombre de usuario ya existe."))
    ELSE Send(r, 500, ErrorBody("Fallo interno al crear el usuario."))

\* undefined is sent to PostgreSQL as NULL.
OrNull(v) == IF v = "" THEN NULL ELSE v

\* INSERT INTO usuarios (correo, username, contrasena, nombre, descripcion, tipo):
\* the password is stored as it was sent.
CrearValues(r) ==
    [correo |-> r.body.correo, username |-> r.body.username,
     contrasena |-> PgText(r.body.contrasena), nombre |-> r.body.nombre,
     descripcion |-> OrNull(r.body.descripcion), tipo |-> OrNull(r.body.tipo)]

\* RETURNING id, nombre, username, tipo
CrearReturning == {"id", "nombre", "username", "tipo"}

\* The request arrives; the handler validates and sends the INSERT.
CrearReceive(s, b) ==
    /\ CanAccept(s)
    /\ started' = started + 1
    /\ LET r == Accept(s, "crear", b)
       IN /\ reqs' = [reqs EXCEPT ![s] =
                IF CrearMissing(b)
                THEN Send(r, 400, ErrorBody("Faltan campos esenciales: correo, username, contrasena, o nombre."))
                ELSE [r EXCEPT !.pc = "insert"]]
          /\ trace' = [trace EXCEPT ![s] =
                [Arrive(s, b) EXCEPT !.inserts = IF CrearMissing(b) THEN 0 ELSE 1]]
    /\ UNCHANGED <<usuarios, nextId, salts, images, dbCheck, serving>>

\* await pool.query(queryText, ...) settles.
CrearInserted(s) ==
    /\ serving /\ reqs[s].handler = "crear" /\ reqs[s].pc = "insert"
    /\ \E ok \in BOOLEAN :
        LET r == reqs[s]
            row == NewRow(nextId, CrearValues(r))
        IN IF ~ok
           THEN /\ reqs' = [reqs EXCEPT ![s] = CrearCatch(r, "ECONNREFUSED")]
                /\ trace' = [trace EXCEPT ![s].fault = TRUE]
                /\ UNCHANGED <<usuarios, nextId>>
           ELSE IF UniqueViolation(CrearValues(r))
           THEN /\ reqs' = [reqs EXCEPT ![s] = CrearCatch(r, "23505")]
                /\ trace' = [trace EXCEPT ![s].rejected = TRUE]
                /\ UNCHANGED <<usuarios, nextId>>
           ELSE /\ usuarios' = usuarios \cup {row}
                /\ nextId' = nextId + 1
                /\ reqs' = [reqs EXCEPT ![s] =
                      Send(r, 201, ObjectBody(Project(row, CrearReturning)))]
                /\ trace' = [trace EXCEPT ![s].inserted = row.id]
    /\ UNCHANGED <<salts, images, started, dbCheck, serving>>

\* ------------------------------------------- POST /api/usuarios/login
\* (src/index.js and both servers of src/unnamed/part_000: the same code)
LoginBody(q, p) == [EmptyBody EXCEPT !.query = q, !.password = p]

LoginBodies ==
    {LoginBody(q, p) : q \in Idents, p \in LoginClaves}
    \cup {LoginBody("", "pass123"), LoginBody("ana", "")}

\* if (!query || !password)
LoginMissing(b) == b.query = "" \/ b.password = ""

\* SELECT id, nombre, username, correo, imagen_url, contrasena_hash
LoginColumns ==
    {"id", "nombre", "username", "correo", "imagen_url", "contrasena_hash"}

\* The 401 for an unknown user without its return: the handler goes on to
\* read rows[0] and to bcrypt.compare.
LoginNoUserNoReturn(r) ==
    [Send(r, 401, ErrorBody("Credenciales incorrectas.")) EXCEPT !.pc = "compare"]

\* return res.status(401)... when result.rows.length === 0
LoginNoUser(r) == Send(r, 401, ErrorBody("Credenciales incorrectas."))

\* return res.status(401)... when !isMatch
LoginNoMatch(r) == Send(r, 401, ErrorBody("Contrasena incorrecta."))

\* const { contrasena_hash, ...userData } = user; res.status(200).json(userData)
LoginOk(r) ==
    Send(r, 200, ObjectBody(Project(r.user, DOMAIN r.user \ {"contrasena_hash"})))

LoginCatch(r) == Send(r, 500, ErrorBody("Error interno del servidor."))

\* The request arrives; the handler validates and sends the SELECT.
LoginReceive(s, b) ==
    /\ CanAccept(s)
    /\ started' = started + 1
    /\ LET r == Accept(s, "login", b)
       IN reqs' = [reqs EXCEPT ![s] =
            IF LoginMissing(b)
            THEN Send(r, 400, ErrorBody("Faltan credenciales (usuario/correo y contrasena)."))
            ELSE [r EXCEPT !.pc = "query"]]
    /\ trace' = [trace EXCEPT ![s] = Arrive(s, b)]
    /\ UNCHANGED <<usuarios, nextId, salts, images, dbCheck, serving>>

\* await pool.query(loginQuery, [query]) settles: no row, or user = rows[0]
\* (the query has no ORDER BY: any matching row may come first) and
\* bcrypt.compare is started.
LoginQueried(s) ==
    /\ serving /\ reqs[s].handler = "login" /\ reqs[s].pc = "query"
    /\ \E ok \in BOOLEAN :
        LET r == reqs[s]
            rows == SelectWhere(r.body.query)
        IN IF ~ok
           THEN /\ reqs' = [reqs EXCEPT ![s] = LoginCatch(r)]
                /\ trace' = [trace EXCEPT ![s].fault = TRUE]
           ELSE /\ trace' = [trace EXCEPT ![s].snapshot = usuarios]
                /\ IF rows = {}
                   THEN reqs' = [reqs EXCEPT ![s] = LoginNoUser(r)]
                   ELSE \E user \in rows :
                          reqs' = [reqs EXCEPT
                              ![s].user = Project(user, LoginColumns),
                              ![s].pc = "compare"]
    /\ UNCHANGED <<usuarios, nextId, salts, images, started, dbCheck, serving>>

\* await bcrypt.compare(password, user.contrasena_hash) settles.
LoginCompared(s) ==
    /\ serving /\ reqs[s].handler = "login" /\ reqs[s].pc = "compare"
    /\ LET r == reqs[s]
           isMatch == BcryptCompare(r.body.password, r.user.contrasena_hash)
       IN reqs' = [reqs EXCEPT ![s] =
            IF isMatch = "throw" THEN LoginCatch(r)
            ELSE IF isMatch = "false" THEN LoginNoMatch(r)
            ELSE LoginOk(r)]
    /\ UNCHANGED <<usuarios, nextId, salts, images, trace, started, dbCheck, serving>>

\* --------------------- POST /api/usuarios/login of src/unnamed/part_001
LoginPlainBodies ==
    {LoginBody(q, p) : q \in Idents, p \in {"pass123", "wrong"}}
    \cup {LoginBody("ana", "")}

\* SELECT id, nombre, username, tipo, seguidores, imagen_url, correo, password
PlainColumns ==
    {"id", "nombre", "username", "tipo", "seguidores", "imagen_url", "correo",
     "password"}

\* if (user.password !== password)
PlainMatch(stored, password) == stored = password

LoginPlainCatch(r) ==
    Send(r, 500, ErrorBody("Error interno del servidor durante el login."))

LoginPlainReceive(s, b) ==
    /\ CanAccept(s)
    /\ started' = started + 1
    /\ LET r == Accept(s, "loginPlain", b)
       IN reqs' = [reqs EXCEPT ![s] =
            IF LoginMissing(b)
            THEN Send(r, 400, ErrorBody("Faltan credenciales (query y/o password)."))
            ELSE [r EXCEPT !.pc = "query"]]
    /\ trace' = [trace EXCEPT ![s] = Arrive(s, b)]
    /\ UNCHANGED <<usuarios, nextId, salts, images, dbCheck, serving>>

\* await pool.query(..., [query.toLowerCase()]) settles; the password is
\* compared and the response sent without another await.
LoginPlainQueried(s) ==
    /\ serving /\ reqs[s].handler = "loginPlain" /\ reqs[s].pc = "query"
    /\ \E ok \in BOOLEAN :
        LET r == reqs[s]
            rows == SelectWhere(ToLowerCase(r.body.query))
        IN IF ~ok
           THEN /\ reqs' = [reqs EXCEPT ![s] = LoginPlainCatch(r)]
                /\ trace' = [trace EXCEPT ![s].fault = TRUE]
           ELSE /\ trace' = [trace EXCEPT ![s].snapshot = usuarios]
                /\ IF rows = {}
                   THEN reqs' = [reqs EXCEPT ![s] = LoginNoUser(r)]
                   ELSE \E row \in rows :
                        LET user == Project(row, PlainColumns)
                            found == [r EXCEPT !.user = user]
                        IN reqs' = [reqs EXCEPT ![s] =
                             IF ~PlainMatch(user.password, r.body.password)
                             THEN LoginNoMatch(found)
                             ELSE Send(found, 200,
                                      ObjectBody(Project(user, DOMAIN user \ {"password"})))]
    /\ UNCHANGED <<usuarios, nextId, salts, images, started, dbCheck, serving>>

\* -------------------------------------------- GET /api/usuarios/buscar
\* (src/index.js and both servers of src/unnamed/part_000: the same code)
BuscarQueries == Idents \cup {""}

\* SELECT id, nombre, username, correo, imagen_url
BuscarColumns == {"id", "nombre", "username", "correo", "imagen_url"}

BuscarCatch(r) == Send(r, 500, ErrorBody("Error interno al buscar usuario."))

BuscarReceive(s, q) ==
    /\ CanAccept(s)
    /\ started' = started + 1
    /\ LET b == [EmptyBody EXCEPT !.query = q]
           r == Accept(s, "buscar", b)
       IN /\ reqs' = [reqs EXCEPT ![s] =
                IF q = ""
                THEN Send(r, 400, ErrorBody("Falta el parametro de busqueda (query)."))
                ELSE [r EXCEPT !.pc = "query"]]
          /\ trace' = [trace EXCEPT ![s] = Arrive(s, b)]
    /\ UNCHANGED <<usuarios, nextId, salts, images, dbCheck, serving>>

\* await pool.query(...) settles: 404, or res.json(rows[0]).
BuscarQueried(s) ==
    /\ serving /\ reqs[s].handler = "buscar" /\ reqs[s].pc = "query"
    /\ \E ok \in BOOLEAN :
        LET r == reqs[s]
            rows == SelectWhere(r.body.query)
        IN IF ~ok
           THEN /\ reqs' = [reqs EXCEPT ![s] = BuscarCatch(r)]
                /\ trace' = [trace EXCEPT ![s].fault = TRUE]
           ELSE /\ trace' = [trace EXCEPT ![s].snapshot = usuarios]
                /\ IF rows = {}
                   THEN reqs' = [reqs EXCEPT ![s] =
                          Send(r, 404, ErrorBody("Usuario no encontrado."))]
                   ELSE \E row \in rows :
                        LET user == Project(row, BuscarColumns)
                        IN reqs' = [reqs EXCEPT ![s] =
                             Send([r EXCEPT !.user = user], 200, ObjectBody(user))]
    /\ UNCHANGED <<usuarios, nextId, salts, images, started, dbCheck, serving>>

\* -------------------- GET /api/usuarios/buscar of src/unnamed/part_001
BuscarPlainReceive(s, q) ==
    /\ CanAccept(s)
    /\ started' = started + 1
    /\ LET b == [EmptyBody EXCEPT !.query = q]
           r == Accept(s, "buscarPlain", b)
       IN /\ reqs' = [reqs EXCEPT ![s] =
                IF q = ""
                THEN Send(r, 400, ErrorBody("Falta el parametro de busqueda (query)."))
                ELSE [r EXCEPT !.pc = "query"]]
          /\ trace' = [trace EXCEPT ![s] = Arrive(s, b)]
    /\ UNCHANGED <<usuarios, nextId, salts, images, dbCheck, serving>>

\* await pool.query(..., [query.toLowerCase()]) settles; delete user.password.
BuscarPlainQueried(s) ==
    /\ serving /\ reqs[s].handler = "buscarPlain" /\ reqs[s].pc = "query"
    /\ \E ok \in BOOLEAN :
        LET r == reqs[s]
            rows == SelectWhere(ToLowerCase(r.body.query))
        IN IF ~ok
           THEN /\ reqs' = [reqs EXCEPT ![s] = BuscarCatch(r)]
                /\ trace' = [trace EXCEPT ![s].fault = TRUE]
           ELSE /\ trace' = [trace EXCEPT ![s].snapshot = usuarios]
                /\ IF rows = {}
                   THEN reqs' = [reqs EXCEPT ![s] =
                          Send(r, 404, ErrorBody("Usuario no encontrado."))]
                   ELSE \E row \in rows :
                        LET user == Project(row, PlainColumns \ {"password"})
                        IN reqs' = [reqs EXCEPT ![s] =
                             Send([r EXCEPT !.user = user], 200, ObjectBody(user))]
    /\ UNCHANGED <<usuarios, nextId, salts, images, started, dbCheck, serving>>

\* ------------------------------------ GET /api/usuarios of src/index.js
\* SELECT id, nombre, username, descripcion, tipo, seguidores,
\*        likes_recibidos, imagen_url
ListarColumns ==
    {"id", "nombre", "username", "descripcion", "tipo", "seguidores",
     "likes_recibidos", "imagen_url"}

ListarSelect(row) == Project(row, ListarColumns)

ListarReceive(s) ==
    /\ CanAccept(s)
    /\ started' = started + 1
    /\ reqs' = [reqs EXCEPT ![s] = [Accept(s, "listar", EmptyBody) EXCEPT !.pc = "query"]]
    /\ trace' = [trace EXCEPT ![s] = Arrive(s, EmptyBody)]
    /\ UNCHANGED <<usuarios, nextId, salts, images, dbCheck, serving>>

\* await pool.query(queryText) settles: res.json(result.rows).
ListarQueried(s) ==
    /\ serving /\ reqs[s].handler = "listar" /\ reqs[s].pc = "query"
    /\ \E ok \in BOOLEAN :
        LET r == reqs[s]
            rows == OrderByIdDesc(usuarios)
        IN IF ~ok
           THEN /\ reqs' = [reqs EXCEPT ![s] =
                      Send(r, 500, ErrorBody("Fallo interno al obtener datos."))]
                /\ trace' = [trace EXCEPT ![s].fault = TRUE]
           ELSE /\ reqs' = [reqs EXCEPT ![s] =
                      Send(r, 200, ArrayBody([i \in DOMAIN rows |-> ListarSelect(rows[i])]))]
                /\ trace' = [trace EXCEPT ![s].snapshot = usuarios]
    /\ UNCHANGED <<usuarios, nextId, salts, images, started, dbCheck, serving>>

\* ---------------------------- GET /api/usuarios of src/unnamed/part_001
\* SELECT * FROM usuarios
ListarTodoSelect(row) == Project(row, Columns)

ListarTodoReceive(s) ==
    /\ CanAccept(s)
    /\ started' = started + 1
    /\ reqs' = [reqs EXCEPT ![s] = [Accept(s, "listarTodo", EmptyBody) EXCEPT !.pc = "query"]]
    /\ trace' = [trace EXCEPT ![s] = Arrive(s, EmptyBody)]
    /\ UNCHANGED <<usuarios, nextId, salts, images, dbCheck, serving>>

\* await pool.query('SELECT * FROM usuarios') settles: res.json(result.rows),
\* in whatever order the table returns them.
ListarTodoQueried(s) ==
    /\ serving /\ reqs[s].handler = "listarTodo" /\ reqs[s].pc = "query"
    /\ \E ok \in BOOLEAN :
        LET r == reqs[s]
        IN IF ~ok
           THEN /\ reqs' = [reqs EXCEPT ![s] =
                      Send(r, 500, ErrorBody("Error interno del servidor."))]
                /\ trace' = [trace EXCEPT ![s].fault = TRUE]
           ELSE /\ \E rows \in AnyOrder(usuarios) :
                      reqs' = [reqs EXCEPT ![s] =
                        Send(r, 200, ArrayBody([i \in DOMAIN rows |-> ListarTodoSelect(rows[i])]))]
                /\ trace' = [trace EXCEPT ![s].snapshot = usuarios]
    /\ UNCHANGED <<usuarios, nextId, salts, images, started, dbCheck, serving>>

\* ------------------------------------------------------------ startup
\* testDbConnection without its try/catch: the rejection of pool.query is
\* handled by nobody and Node ends the process.
TestDbConnectionNoCatch == [dbCheck |-> "failed", serving |-> FALSE]

\* catch (err) { console.error(...); console.log(...) }: the error is logged,
\* nothing is rethrown and the process goes on. part_000's
\* pool.query('SELECT NOW()').then(...).catch(...) and part_001's
\* pool.connect().then(...).catch(...) log the error in the same way.
TestDbConnectionCatch == [dbCheck |-> "failed", serving |-> TRUE]

\* await pool.query('SELECT NOW()') of the startup check settles, at any
\* moment after the server has started to listen.
TestDbConnection ==
    /\ serving /\ dbCheck = "pending"
    /\ \E ok \in BOOLEAN :
        LET after == IF ok THEN [dbCheck |-> "ok", serving |-> TRUE]
                     ELSE TestDbConnectionCatch
        IN dbCheck' = after.dbCheck /\ serving' = after.serving
    /\ UNCHANGED <<usuarios, nextId, salts, images, reqs, trace, started>>

Next ==
    \E s \in Slots :
        \/ \E b \in RegistroBodies : RegistroReceive(s, b)
        \/ RegistroUploaded(s)
        \/ RegistroHashed(s)
        \/ RegistroInserted(s)
        \/ \E b \in CrearBodies : CrearReceive(s, b)
        \/ CrearInserted(s)
        \/ \E b \in LoginBodies : LoginReceive(s, b)
        \/ LoginQueried(s)
        \/ LoginCompared(s)
        \/ \E b \in LoginPlainBodies : LoginPlainReceive(s, b)
        \/ LoginPlainQueried(s)
        \/ \E q \in BuscarQueries : BuscarReceive(s, q)
        \/ BuscarQueried(s)
        \/ \E q \in BuscarQueries : BuscarPlainReceive(s, q)
        \/ BuscarPlainQueried(s)
        \/ ListarReceive(s)
        \/ ListarQueried(s)
        \/ ListarTodoReceive(s)
        \/ ListarTodoQueried(s)

Spec == Init /\ [][Next]_vars

\* The first server of src/index.js on its own: search, registro and login.
NextIndex ==
    \E s \in Slots :
        \/ \E b \in RegistroBodies : RegistroReceive(s, b)
        \/ RegistroUploaded(s)
        \/ RegistroHashed(s)
        \/ RegistroInserted(s)
        \/ \E b \in LoginBodies : LoginReceive(s, b)
        \/ LoginQueried(s)
        \/ LoginCompared(s)
        \/ \E q \in BuscarQueries : BuscarReceive(s, q)
        \/ BuscarQueried(s)

SpecIndex == Init /\ [][NextIndex]_vars

\* ------------------------------------------- the server from startup on
\* Requests for the runs that include the startup check: for every handler a
\* request that reaches its collaborators and one that fails validation.
StartupRegistroBodies ==
    {RegistroBody("Ana", "ana", "ana", "pass123", "AAAA"),
     RegistroBody("Ana", "ana", "ana", NumPw, ""),
     RegistroBody("Ana", "ana", "ana", "", "AAAA")}

StartupCrearBodies ==
    {CrearBody("ana", "ana", "pass123", "Ana"),
     CrearBody("", "ana", "pass123", "Ana")}

StartupLoginBodies ==
    {LoginBody("ana", "pass123"), LoginBody("ana", "wrong"),
     LoginBody("ana", NumPw), LoginBody("ana", "")}

StartupQueries == {"ana", ""}

\* A request arrives.
Receive(s) ==
    \/ \E b \in StartupRegistroBodies : RegistroReceive(s, b)
    \/ \E b \in StartupCrearBodies : CrearReceive(s, b)
    \/ \E b \in StartupLoginBodies : LoginReceive(s, b)
    \/ \E b \in StartupLoginBodies : LoginPlainReceive(s, b)
    \/ \E q \in StartupQueries : BuscarReceive(s, q)
    \/ \E q \in StartupQueries : BuscarPlainReceive(s, q)
    \/ ListarReceive(s)
    \/ ListarTodoReceive(s)

\* The promise the handler of slot s awaits settles and the handler runs on
\* to its next await or to its response.
Settle(s) ==
    \/ RegistroUploaded(s)
    \/ RegistroHashed(s)
    \/ RegistroInserted(s)
    \/ CrearInserted(s)
    \/ LoginQueried(s)
    \/ LoginCompared(s)
    \/ LoginPlainQueried(s)
    \/ BuscarQueried(s)
    \/ BuscarPlainQueried(s)
    \/ ListarQueried(s)
    \/ ListarTodoQueried(s)

NextStartup ==
    \/ TestDbConnection
    \/ \E s \in Slots : Receive(s)
    \/ \E s \in Slots : Settle(s)

\* Every promise settles: pool.query, cloudinary's upload and bcrypt resolve
\* or reject in finite time, and Node then runs the continuation.
SpecStartup ==
    /\ Init /\ [][NextStartup]_vars
    /\ WF_vars(TestDbConnection)
    /\ \A s \in Slots : WF_vars(Settle(s))

\* ------------------------------------------------------------------ claims
Done(s) == reqs[s].pc = "done"

IsRegister(s) == reqs[s].handler \in {"registro", "crear"}

IsLogin(s) == reqs[s].handler \in {"login", "loginPlain"}

\* A register request with the four mandatory fields present, as strings.
ValidRegister(s) ==
    /\ IsRegister(s)
    /\ reqs[s].body.nombre # "" /\ reqs[s].body.correo # ""
    /\ reqs[s].body.username # "" /\ reqs[s].body.contrasena # ""
    /\ IsString(reqs[s].body.contrasena)

UniqueUsuarios ==
    \A a, b \in usuarios :
        a # b => a.username # b.username /\ a.correo # b.correo

RejectedFails ==
    \A s \in Slots :
        trace[s].rejected =>
            /\ Done(s)
            /\ reqs[s].status \notin {200, 201}
            /\ reqs[s].resp.kind = "error"
            /\ trace[s].inserted = 0

RejectKeepsStore ==
    \A s \in Slots :
        (~trace[s].rejected /\ trace'[s].rejected) =>
            usuarios' = usuarios /\ nextId' = nextId

\* C1: no two rows of usuarios share a username and no two share a correo,
\* whatever requests ran and however they interleaved; a register whose INSERT
\* the table rejects is answered with a failure, has inserted nothing, and the
\* step that rejects it leaves the table as it was.
C1_UniqueAccounts ==
    [](UniqueUsuarios /\ RejectedFails) /\ [][RejectKeepsStore]_vars

\* Two rows are stored and a later register has been rejected.
C1_Witness ==
    /\ Cardinality(usuarios) = 2
    /\ \E s \in Slots : trace[s].rejected /\ reqs[s].status = 409

\* C2: a valid register that arrives when a row already holds its username or
\* its correo is answered 409 and inserts nothing (the row count stays); a
\* valid register whose INSERT the table does not reject is answered 201 with
\* the row it inserted. Store outages aside.
C2_SecondRegisterConflicts ==
    \A s \in Slots :
        (Done(s) /\ ValidRegister(s) /\ ~trace[s].fault) =>
            /\ trace[s].dupAtStart =>
                  /\ reqs[s].status = 409
                  /\ trace[s].inserted = 0
                  /\ trace[s].rejected
            /\ ~trace[s].rejected =>
                  /\ reqs[s].status = 201
                  /\ \E row \in usuarios :
                        /\ row.id = trace[s].inserted
                        /\ row.username = reqs[s].body.username
                        /\ row.correo = reqs[s].body.correo
                        /\ reqs[s].resp.rows[1].id = row.id

\* After a first registration, one register reusing only its username and one
\* reusing only its correo have both been answered 409, and one row is stored.
C2_Witness ==
    /\ Cardinality(usuarios) = 1
    /\ \E s, t \in Slots, row \in usuarios :
        /\ s # t /\ Done(s) /\ Done(t) /\ ValidRegister(s) /\ ValidRegister(t)
        /\ trace[s].dupAtStart /\ trace[t].dupAtStart
        /\ reqs[s].status = 409 /\ reqs[t].status = 409
        /\ reqs[s].body.username = row.username /\ reqs[s].body.correo # row.correo
        /\ reqs[t].body.correo = row.correo /\ reqs[t].body.username # row.username

SharedKey(s, t) ==
    \/ reqs[s].body.username = reqs[t].body.username
    \/ reqs[s].body.correo = reqs[t].body.correo

\* Exactly one row holds the username the two requests share, and exactly
\* one the correo they share.
OneRowPerSharedKey(s, t) ==
    /\ reqs[s].body.username = reqs[t].body.username =>
          Cardinality({row \in usuarios : row.username = reqs[s].body.username}) = 1
    /\ reqs[s].body.correo = reqs[t].body.correo =>
          Cardinality({row \in usuarios : row.correo = reqs[s].body.correo}) = 1

\* C3: of two valid registers with the same username or the same correo that
\* both reached the table (no outage), at most one is answered 201; the other
\* was rejected by the INSERT itself and is answered 409; and when neither key
\* was taken as they arrived, exactly one of them is answered 201 and exactly
\* one row holds each key they share.
C3_RaceOneWinner ==
    \A s, t \in Slots :
        (/\ s # t /\ Done(s) /\ Done(t)
         /\ ValidRegister(s) /\ ValidRegister(t)
         /\ ~trace[s].fault /\ ~trace[t].fault
         /\ SharedKey(s, t)) =>
            /\ ~(reqs[s].status = 201 /\ reqs[t].status = 201)
            /\ reqs[s].status # 201 => (reqs[s].status = 409 /\ trace[s].rejected)
            /\ (~trace[s].dupAtStart /\ ~trace[t].dupAtStart) =>
                  /\ reqs[s].status = 201 \/ reqs[t].status = 201
                  /\ OneRowPerSharedKey(s, t)

\* Two registers with the same username found it free as they arrived; one was
\* answered 201, the other was rejected by the INSERT and answered 409.
C3_Witness ==
    \E s, t \in Slots :
        /\ s # t /\ Done(s) /\ Done(t)
        /\ reqs[s].handler = "registro" /\ reqs[t].handler = "registro"
        /\ reqs[s].body.username = reqs[t].body.username
        /\ ~trace[s].dupAtStart /\ ~trace[t].dupAtStart
        /\ reqs[s].status = 201
        /\ reqs[t].status = 409 /\ trace[t].rejected

\* C9: a register request with a mandatory field absent or empty is answered
\* 400 at once: it never waits on a collaborator, sends no upload and no
\* INSERT, and inserts no row.
C9_MissingFieldNoMutation ==
    \A s \in Slots :
        (/\ IsRegister(s)
         /\ \/ reqs[s].body.nombre = "" \/ reqs[s].body.correo = ""
            \/ reqs[s].body.username = "" \/ reqs[s].body.contrasena = "") =>
            /\ Done(s)
            /\ reqs[s].status = 400
            /\ reqs[s].resp.kind = "error"
            /\ trace[s].uploads = 0
            /\ trace[s].inserts = 0
            /\ trace[s].inserted = 0

\* A registro request with an image but no contrasena, and a crear request
\* with no correo, have both been answered 400.
C9_Witness ==
    \E s, t \in Slots :
        /\ reqs[s].handler = "registro" /\ reqs[s].body.contrasena = ""
        /\ reqs[s].body.imagenBase64 # "" /\ reqs[s].status = 400
        /\ reqs[t].handler = "crear" /\ reqs[t].body.correo = ""
        /\ reqs[t].status = 400

\* The row a finished login or search picked (rows[0]), as the table held it.
MatchedRows(s) ==
    {row \in trace[s].snapshot : row.id = reqs[s].user.id}

\* The password verifies against the row's stored hash.
Verifies(password, row) == BcryptCompare(password, row.contrasena_hash) = "true"

\* C4: a login is answered 200 only if a row's username or correo equals the
\* identifier sent and the password sent verifies against that row's stored
\* hash; a login that matched a row whose stored hash the password does not
\* verify against is answered 401 without account data.
C4_LoginOnlyWithPassword ==
    \A s \in Slots :
        (Done(s) /\ IsLogin(s)) =>
            /\ reqs[s].status = 200 =>
                  \E row \in trace[s].snapshot :
                      /\ row.username = reqs[s].body.query
                            \/ row.correo = reqs[s].body.query
                      /\ reqs[s].resp.rows[1].id = row.id
                      /\ Verifies(reqs[s].body.password, row)
            /\ \A row \in MatchedRows(s) :
                  ~Verifies(reqs[s].body.password, row) =>
                      reqs[s].status = 401 /\ reqs[s].resp.rows = <<>>

\* The row was created by a register operation with this password.
RegisteredWith(row, password) ==
    /\ IsString(password)
    /\ \/ \E k \in 1..MaxRequests : row.contrasena_hash = BcryptHash(k, password)
       \/ row.contrasena = password

\* C5 (on the registro and login handlers of src/index.js): when the table
\* holds an account that /api/usuarios/registro created with some password, a
\* login with that password and the account's username, or its correo, is
\* answered 200 with that account's id. Store outages aside.
C5_LoginFindsOwnAccount ==
    \A s \in Slots :
        (Done(s) /\ reqs[s].handler = "login" /\ ~trace[s].fault) =>
            \A row \in trace[s].snapshot :
                (/\ row.contrasena_hash # NULL
                 /\ RegisteredWith(row, reqs[s].body.password)
                 /\ reqs[s].body.query \in {row.username, row.correo}) =>
                    /\ reqs[s].status = 200
                    /\ reqs[s].resp.rows[1].id = row.id

\* C6: no response carries a credential column of any account.
C6_NoCredentialInResponse ==
    \A s \in Slots :
        \A i \in DOMAIN reqs[s].resp.rows :
            DOMAIN reqs[s].resp.rows[i] \cap CredentialColumns = {}

\* The login matched a row and the password sent is not that row's password.
WrongPassword(s) ==
    /\ Done(s) /\ IsLogin(s) /\ ~trace[s].fault
    /\ \E row \in MatchedRows(s) :
        IF reqs[s].handler = "login"
        THEN BcryptCompare(reqs[s].body.password, row.contrasena_hash) = "false"
        ELSE row.password # reqs[s].body.password

\* The login's identifier matched no row.
UnknownIdentifier(s) ==
    /\ Done(s) /\ IsLogin(s) /\ ~trace[s].fault
    /\ reqs[s].body.query # "" /\ reqs[s].body.password # ""
    /\ IsString(reqs[s].body.password)
    /\ reqs[s].status # 400
    /\ reqs[s].user.id = 0

\* C7: a login with a known identifier and a wrong password, and a login with
\* an unknown identifier, sent to the same server, get the same status and
\* the same body.
C7_LoginFailuresIndistinguishable ==
    \A s, t \in Slots :
        (/\ reqs[s].handler = reqs[t].handler
         /\ WrongPassword(s) /\ UnknownIdentifier(t)) =>
            /\ reqs[s].status = reqs[t].status
            /\ reqs[s].resp = reqs[t].resp

\* The rows a finished register request inserted.
InsertedRows(s) == {row \in usuarios : row.id = trace[s].inserted}

\* C8: no credential column of a row a register operation inserted equals the
\* password that was sent, and no login is answered 200 because the stored
\* value equals the password sent.
C8_NoPlaintextStored ==
    /\ \A s \in Slots :
        (Done(s) /\ IsRegister(s) /\ reqs[s].status = 201) =>
            \A row \in InsertedRows(s), c \in CredentialColumns :
                row[c] # reqs[s].body.contrasena
    /\ \A s \in Slots :
        (Done(s) /\ IsLogin(s) /\ reqs[s].status = 200) =>
            \A row \in MatchedRows(s), c \in CredentialColumns :
                row[c] # reqs[s].body.password

\* The credential a register operation stored in the row.
StoredCredential(row) ==
    IF row.contrasena_hash # NULL THEN row.contrasena_hash ELSE row.contrasena

\* C10: two successful registrations with the same password store different
\* hash strings, each of which the password verifies against; and a login
\* that picks an account registered with the password it sends is answered
\* 200.
C10_SamePasswordDistinctHashes ==
    /\ \A s, t \in Slots :
        (/\ s # t /\ Done(s) /\ Done(t) /\ IsRegister(s) /\ IsRegister(t)
         /\ reqs[s].status = 201 /\ reqs[t].status = 201
         /\ reqs[s].body.contrasena = reqs[t].body.contrasena) =>
            \A a \in InsertedRows(s), b \in InsertedRows(t) :
                /\ StoredCredential(a) # StoredCredential(b)
                /\ Verifies(reqs[s].body.contrasena, a)
                /\ Verifies(reqs[t].body.contrasena, b)
    /\ \A s \in Slots :
        (Done(s) /\ reqs[s].handler = "login") =>
            \A row \in MatchedRows(s) :
                RegisteredWith(row, reqs[s].body.password) =>
                    reqs[s].status = 200 /\ reqs[s].resp.rows[1].id = row.id

\* The handler of slot s took a step.
Stepped(s) == reqs'[s] # reqs[s] \/ trace'[s] # trace[s]

\* The step ends a register request of slot s with 201.
Registered(s) ==
    /\ reqs[s].handler \in {"registro", "crear"} /\ reqs[s].pc = "insert"
    /\ reqs'[s].pc = "done" /\ reqs'[s].status = 201

\* Every row stays in the table as it is, field by field. A step of a login,
\* search or list request, and a step of a register request that does not end
\* it with 201, leave the table as it was; the step that ends a register
\* request with 201 adds one row, with an id no row had, and nothing else.
StoreFrame ==
    /\ usuarios \subseteq usuarios'
    /\ (\A s \in Slots : ~Stepped(s)) => usuarios' = usuarios
    /\ \A s \in Slots :
        Stepped(s) =>
            IF Registered(s)
            THEN \E row \in usuarios' \ usuarios :
                    /\ usuarios' = usuarios \cup {row}
                    /\ \A old \in usuarios : old.id # row.id
                    /\ row.id = trace'[s].inserted
            ELSE usuarios' = usuarios

\* C11: an account in the store keeps every field under every later
\* operation: login, search and list leave the whole table unchanged, a failed
\* register leaves it unchanged, and a successful register adds one row and
\* alters no existing one.
C11_AccountsNeverChange == [][StoreFrame]_vars

\* The row that was there at the start is still stored beside a row a register
\* added; a later register has failed and a login, which saw both rows, has
\* been answered 200.
C11_Witness ==
    /\ LegacyRow \in usuarios /\ Cardinality(usuarios) = 2
    /\ \E s, t \in Slots :
        /\ Done(s) /\ ValidRegister(s) /\ reqs[s].status \in {409, 500}
        /\ Done(t) /\ IsLogin(t) /\ reqs[t].status = 200
        /\ trace[t].snapshot = usuarios

\* A request that failed on a collaborator (store unreachable, upload refused)
\* has been answered 500 with an error body.
FaultAnswered500 ==
    \A s \in Slots :
        (Done(s) /\ trace[s].fault) =>
            reqs[s].status = 500 /\ reqs[s].resp.kind = "error"

\* With a slot free and requests left to come, a request can be accepted.
StillAccepts ==
    (started < MaxRequests /\ \E s \in Slots : ~InFlight(s)) =>
        \E s \in Slots : CanAccept(s)

\* The request of slot s arrived after a failure.
AfterFailure(s) == trace[s].afterCheckFailed \/ trace[s].afterFault

OneResponse ==
    \A s \in Slots :
        /\ InFlight(s) => reqs[s].sent = 0
        /\ Done(s) =>
              /\ reqs[s].sent = 1
              /\ reqs[s].status \in {200, 201, 400, 401, 404, 409, 500}
              /\ reqs[s].resp.kind # "none"

\* Once a request is answered its handler does nothing more: the record of a
\* finished request changes only when the next request takes the slot.
AnsweredIsFinal ==
    \A s \in Slots :
        (Done(s) /\ (reqs'[s] # reqs[s] \/ trace'[s] # trace[s])) =>
            started' = started + 1

\* C13: every register, login, search and list request that reaches its
\* handler ends with exactly one response: none is sent before the handler is
\* through, a second one is never sent, and every request in flight is
\* answered, on the validation, store error, upload error, no-match and
\* success paths alike.
C13_ExactlyOneResponse ==
    /\ []OneResponse
    /\ [][AnsweredIsFinal]_vars
    /\ \A s \in Slots : InFlight(s) ~> Done(s)

\* A registro whose upload failed and a login that matched no row have each
\* been answered once.
C13_Witness ==
    \E s, t \in Slots :
        /\ Done(s) /\ reqs[s].handler = "registro" /\ trace[s].fault
        /\ trace[s].uploads = 1 /\ trace[s].inserts = 0
        /\ reqs[s].status = 500 /\ reqs[s].sent = 1
        /\ Done(t) /\ reqs[t].handler = "login" /\ reqs[t].user = NoRow
        /\ reqs[t].status = 401 /\ reqs[t].sent = 1

\* A registro request that passed validation.
RegistroAttempted(s) ==
    /\ reqs[s].handler = "registro"
    /\ reqs[s].body.nombre # "" /\ reqs[s].body.correo # ""
    /\ reqs[s].body.username # "" /\ reqs[s].body.contrasena # ""

HasImage(s) == reqs[s].body.imagenBase64 # ""

\* The handler moves forward only: validate, upload (with an image attached),
\* hash, insert, response; any step may instead end the request.
RegistroOrder ==
    \A s \in Slots :
        (reqs'[s].handler = "registro" /\ reqs'[s] # reqs[s]) =>
            IF ~InFlight(s)
            THEN reqs'[s].pc =
                    IF ~RegistroAttempted(s)' THEN "done"
                    ELSE IF HasImage(s)' THEN "upload" ELSE "hash"
            ELSE \/ reqs[s].pc = "upload" /\ reqs'[s].pc \in {"hash", "done"}
                 \/ reqs[s].pc = "hash" /\ reqs'[s].pc \in {"insert", "done"}
                 \/ reqs[s].pc = "insert" /\ reqs'[s].pc = "done"

\* The INSERT is sent only with the hash of the password in hand and, with an
\* image attached, with the URL the image store returned for the one upload.
InsertAfterUploadAndHash ==
    \A s \in Slots :
        (RegistroAttempted(s) /\ trace[s].inserts > 0) =>
            /\ BcryptCompare(reqs[s].body.contrasena, reqs[s].contrasenaHash) = "true"
            /\ IF HasImage(s)
               THEN trace[s].uploads = 1 /\ reqs[s].imageUrl \in images
               ELSE trace[s].uploads = 0 /\ reqs[s].imageUrl = NULL

\* A request that ended without a hash (its upload or its hashing failed) was
\* answered 500 and has sent no INSERT.
FailedBeforeInsert ==
    \A s \in Slots :
        (Done(s) /\ RegistroAttempted(s) /\ reqs[s].contrasenaHash = NULL) =>
            /\ reqs[s].status = 500
            /\ trace[s].inserts = 0 /\ trace[s].inserted = 0

\* The step in which the upload or the hashing fails leaves the table alone.
FailureKeepsStore ==
    \A s \in Slots :
        (reqs[s].handler = "registro" /\ reqs[s].pc \in {"upload", "hash"}
         /\ reqs'[s].pc = "done") => usuarios' = usuarios

\* No row holds an image URL the image store did not return.
ImagesFromStore ==
    \A row \in usuarios : row.imagen_url = NULL \/ row.imagen_url \in images

\* C14: registro runs validate, upload, hash, insert in that order; the INSERT
\* is sent only after the upload (when an image is attached) and the hashing
\* have succeeded; a failed upload or hashing ends the request with 500 and
\* the table unchanged; and no row holds an image URL the image store did not
\* return.
C14_RegistroStepOrder ==
    /\ [](InsertAfterUploadAndHash /\ FailedBeforeInsert /\ ImagesFromStore)
    /\ [][RegistroOrder /\ FailureKeepsStore]_vars

\* A registro with an image was answered 201 and its row holds the URL the
\* image store returned; another, whose image was uploaded but whose password
\* could not be hashed, was answered 500 without an INSERT.
C14_Witness ==
    \E s, t \in Slots :
        /\ Done(s) /\ RegistroAttempted(s) /\ HasImage(s) /\ reqs[s].status = 201
        /\ \E row \in usuarios :
              /\ row.id = trace[s].inserted
              /\ row.imagen_url = reqs[s].imageUrl /\ row.imagen_url \in images
        /\ Done(t) /\ RegistroAttempted(t) /\ HasImage(t)
        /\ reqs[t].imageUrl \in images /\ reqs[t].contrasenaHash = NULL
        /\ reqs[t].status = 500 /\ trace[t].inserts = 0
====
